---- MODULE Spec2Model ----
(***************************************************************************)
(* Model of nyan.py: the TextEditor line buffer (text, cursor, scroll,     *)
(* modified flag, status message, load/save) and the CatEditor layout      *)
(* computation and event loop.                                             *)
(*                                                                         *)
(* Characters are their integer codes, as the program receives them from   *)
(* getch; a line is a sequence of codes, the text a sequence of lines.     *)
(* cursor_x, cursor_y and scroll_y are 0-based as in the source.           *)
(***************************************************************************)
EXTENDS Integers, Sequences, FiniteSets, TLC

VARIABLES
    filename,        \* TextEditor.filename: NoName or a path
    fileState,       \* the file at that path: "absent", "present", "denied"
    fileData,        \* its content, a sequence of character codes
    text,            \* TextEditor.text
    cursor_x,        \* TextEditor.cursor_x
    cursor_y,        \* TextEditor.cursor_y
    scroll_y,        \* TextEditor.scroll_y
    status_message,  \* TextEditor.status_message
    status_timer,    \* TextEditor.status_timer
    modified,        \* TextEditor.modified
    running,         \* CatEditor.running
    height,          \* stdscr.getmaxyx()[0]
    width,           \* stdscr.getmaxyx()[1]
    screen,          \* what the last draw_cat call painted
    message_line,    \* what the message line of the screen shows
    pc,              \* position of the program in CatEditor.run
    save_ret,        \* value returned by save_file in the last step, if called
    io_error         \* an OSError other than FileNotFoundError was raised
                     \* by open/write in the last step (or in load_file)

vars == <<filename, fileState, fileData, text, cursor_x, cursor_y, scroll_y,
          status_message, status_timer, modified, running, height, width,
          screen, message_line, pc, save_ret, io_error>>

----------------------------------------------------------------------------
(* Bounds of the exploration                                               *)

\* A session without file name (a buffer that is never written) is explored
\* up to MaxLines lines, enough for the text to outgrow the viewport; a session
\* on a file, where every saved text is one more content of the file, up to
\* MaxNamedLines lines. Typing stops at MaxChars (MaxNamedChars) characters.
MaxLines == 6
MaxChars == 1
MaxNamedLines == 1
MaxNamedChars == 1

----------------------------------------------------------------------------
(* Program constants                                                       *)

NEWLINE == 10
CARRIAGE_RETURN == 13
CTRL_Q == 17
CTRL_S == 19
CTRL_X == 24
DEL == 127
KEY_DOWN == 258
KEY_UP == 259
KEY_LEFT == 260
KEY_RIGHT == 261
KEY_HOME == 262
KEY_BACKSPACE == 263
KEY_DC == 330
KEY_END == 360
ORD_q == 113
ORD_y == 121
ORD_Y == 89
ORD_n == 110
ORD_N == 78
ORD_a == 97
ORD_b == 98

min_editor_lines == 5
cat_head_height == 3
cat_bottom_height == 4
default_ttl == 5
min_screen_height == 10
min_screen_width == 50

NoName == "None"
Path == "file.txt"

\* Terminal sizes (height, width) the environment may present.
Sizes == { <<20, 80>>, <<14, 80>>, <<10, 80>>, <<5, 40>> }

\* Keys delivered to the main getch of the event loop: one letter that is
\* inserted, the letter q, the control and navigation keys (27, Escape, is a
\* key that no branch of the program names).
Keys == { ORD_b, ORD_q, CTRL_Q, CTRL_X, CTRL_S, NEWLINE, CARRIAGE_RETURN,
          DEL, KEY_BACKSPACE, KEY_DC, KEY_DOWN, KEY_UP, KEY_LEFT, KEY_RIGHT,
          KEY_HOME, KEY_END, 27 }

\* Keys delivered to the getch that reads the answer to the exit prompt.
AnswerKeys == { ORD_y, ORD_Y, ORD_n, ORD_N, NEWLINE, ORD_a, 27 }

\* What an attempt to write the file can do.
SaveOutcomes == { "ok", "open_error", "write_error" }

\* Contents of the file found at session start: empty, with and without a
\* final newline, with empty records.
FileContents ==
    { <<>>,
      <<ORD_a>>,
      <<ORD_a, NEWLINE>>,
      <<NEWLINE, ORD_b, NEWLINE>> }

----------------------------------------------------------------------------
(* Helpers: Python sequence primitives                                     *)

Min(a, b) == IF a < b THEN a ELSE b
Max(a, b) == IF a > b THEN a ELSE b

\* s[a:b] for 0 <= a, b (Python slices clamp to the length)
Slice(s, a, b) == SubSeq(s, Min(a, Len(s)) + 1, Min(b, Len(s)))

\* s[a:]
SliceFrom(s, a) == SubSeq(s, Min(a, Len(s)) + 1, Len(s))

\* list indexing raises IndexError outside -len..len-1
IndexOK(s, i) == -Len(s) <= i /\ i < Len(s)
Item(s, i) == IF i >= 0 THEN s[i + 1] ELSE s[Len(s) + i + 1]
SetItem(s, i, v) == [s EXCEPT ![IF i >= 0 THEN i + 1 ELSE Len(s) + i + 1] = v]

\* list.insert(i, v) and list.pop(i) for 0 <= i
ListInsert(s, i, v) == Slice(s, 0, i) \o <<v>> \o SliceFrom(s, i)
ListPop(s, i) == Slice(s, 0, i) \o SliceFrom(s, i + 1)

RECURSIVE TotalChars(_)
TotalChars(t) == IF t = <<>> THEN 0 ELSE Len(Head(t)) + TotalChars(Tail(t))


----------------------------------------------------------------------------
(* File format                                                             *)

\* file.readlines(): the records of the file, each with its terminating
\* newline; a last record without newline is a record too.
RECURSIVE readlines(_)
readlines(data) ==
    IF data = <<>> THEN <<>>
    ELSE LET nl == { i \in 1..Len(data) : data[i] = NEWLINE }
         IN  IF nl = {} THEN <<data>>
             ELSE LET k == CHOOSE i \in nl : \A j \in nl : i <= j
                  IN  <<SubSeq(data, 1, k)>> \o readlines(SubSeq(data, k + 1, Len(data)))

\* line.rstrip('\n')
RECURSIVE rstrip_newline(_)
rstrip_newline(line) ==
    IF line # <<>> /\ line[Len(line)] = NEWLINE
    THEN rstrip_newline(SubSeq(line, 1, Len(line) - 1))
    ELSE line

\* the text load_file builds from the content of an existing file
loaded_text(data) ==
    LET recs == readlines(data)
    IN  [i \in 1..Len(recs) |-> rstrip_newline(recs[i])]

\* the lines joined by newlines, without one after the last line
RECURSIVE written_data_joined(_)
written_data_joined(t) ==
    IF t = <<>> THEN <<>>
    ELSE IF Len(t) = 1 THEN Head(t)
    ELSE Head(t) \o <<NEWLINE>> \o written_data_joined(Tail(t))

\* what the loop of save_file writes: line + '\n' for every line
RECURSIVE written_data(_)
written_data(t) ==
    IF t = <<>> THEN <<>>
    ELSE Head(t) \o <<NEWLINE>> \o written_data(Tail(t))

----------------------------------------------------------------------------
(* TextEditor: operations on the editor state, as a record                 *)

Editor ==
    [ text |-> text, cursor_x |-> cursor_x, cursor_y |-> cursor_y,
      scroll_y |-> scroll_y, status_message |-> status_message,
      status_timer |-> status_timer, modified |-> modified,
      fileState |-> fileState, fileData |-> fileData,
      save_ret |-> "none", io_error |-> FALSE, raised |-> FALSE ]

set_status_message(e, msg, ttl) ==
    [e EXCEPT !.status_message = msg, !.status_timer = ttl]

Raise(e) == [e EXCEPT !.raised = TRUE]

\* save_file without the test of the filename
save_file_unguarded(e, outcome) ==
    IF outcome = "ok"
    THEN set_status_message(
             [e EXCEPT !.fileState = "present",
                       !.fileData = written_data(e.text),
                       !.modified = FALSE,
                       !.save_ret = "true"],
             "Saved", default_ttl)
    ELSE set_status_message(
             [e EXCEPT !.save_ret = "false", !.io_error = TRUE],
             "Error saving", default_ttl)

\* save_file clearing the modified flag before the write is known to succeed
save_file_clears_early(e, outcome) ==
    IF filename = NoName THEN [e EXCEPT !.save_ret = "false"]
    ELSE IF outcome = "ok"
         THEN set_status_message(
                  [e EXCEPT !.fileState = "present",
                            !.fileData = written_data(e.text),
                            !.modified = FALSE,
                            !.save_ret = "true"],
                  "Saved", default_ttl)
         ELSE set_status_message(
                  [e EXCEPT !.modified = FALSE,
                            !.save_ret = "false", !.io_error = TRUE],
                  "Error saving", default_ttl)

\* save_file; outcome is what the file system does when the write is tried
save_file(e, outcome) ==
    IF filename = NoName THEN [e EXCEPT !.save_ret = "false"]
    ELSE IF outcome = "ok"
         THEN set_status_message(
                  [e EXCEPT !.fileState = "present",
                            !.fileData = written_data(e.text),
                            !.modified = FALSE,
                            !.save_ret = "true"],
                  "Saved", default_ttl)
         ELSE IF outcome = "open_error"
         THEN \* open raises: the file is as it was
              set_status_message(
                  [e EXCEPT !.save_ret = "false", !.io_error = TRUE],
                  "Error saving", default_ttl)
         ELSE \* open succeeded and truncated the file, the write raises
              set_status_message(
                  [e EXCEPT !.fileState = "present",
                            !.fileData = <<>>,
                            !.save_ret = "false", !.io_error = TRUE],
                  "Error saving", default_ttl)

insert_char(e, ch) ==
    LET t0 == IF e.text = <<>> THEN << <<>> >> ELSE e.text
    IN  IF ~IndexOK(t0, e.cursor_y) THEN Raise(e)
        ELSE LET current_line == Item(t0, e.cursor_y)
             IN  [e EXCEPT
                    !.text = SetItem(t0, e.cursor_y,
                                 Slice(current_line, 0, e.cursor_x) \o <<ch>>
                                 \o SliceFrom(current_line, e.cursor_x)),
                    !.cursor_x = e.cursor_x + 1,
                    !.modified = TRUE]

\* the remainder of the line inserted before the truncated line, not after
insert_newline_before(e) ==
    LET t0 == IF e.text = <<>> THEN << <<>> >> ELSE e.text
    IN  IF ~IndexOK(t0, e.cursor_y) THEN Raise(e)
        ELSE LET current_line == Item(t0, e.cursor_y)
                 t1 == SetItem(t0, e.cursor_y, Slice(current_line, 0, e.cursor_x))
             IN  [e EXCEPT
                    !.text = ListInsert(t1, e.cursor_y,
                                        SliceFrom(current_line, e.cursor_x)),
                    !.cursor_y = e.cursor_y + 1,
                    !.cursor_x = 0,
                    !.modified = TRUE]

insert_newline(e) ==
    LET t0 == IF e.text = <<>> THEN << <<>> >> ELSE e.text
    IN  IF ~IndexOK(t0, e.cursor_y) THEN Raise(e)
        ELSE LET current_line == Item(t0, e.cursor_y)
                 t1 == SetItem(t0, e.cursor_y, Slice(current_line, 0, e.cursor_x))
             IN  [e EXCEPT
                    !.text = ListInsert(t1, e.cursor_y + 1,
                                        SliceFrom(current_line, e.cursor_x)),
                    !.cursor_y = e.cursor_y + 1,
                    !.cursor_x = 0,
                    !.modified = TRUE]

\* the character under the cursor removed, not the one before it
delete_char_forward(e) ==
    IF e.text = <<>> THEN e
    ELSE IF ~IndexOK(e.text, e.cursor_y) THEN Raise(e)
    ELSE LET current_line == Item(e.text, e.cursor_y)
         IN  IF e.cursor_x > 0
             THEN [e EXCEPT
                     !.text = SetItem(e.text, e.cursor_y,
                                  Slice(current_line, 0, e.cursor_x)
                                  \o SliceFrom(current_line, e.cursor_x + 1)),
                     !.cursor_x = e.cursor_x - 1,
                     !.modified = TRUE]
             ELSE IF e.cursor_y > 0
             THEN LET prev_line == Item(e.text, e.cursor_y - 1)
                      t1 == SetItem(e.text, e.cursor_y - 1, prev_line \o current_line)
                  IN  [e EXCEPT
                         !.cursor_x = Len(prev_line),
                         !.text = ListPop(t1, e.cursor_y),
                         !.cursor_y = e.cursor_y - 1,
                         !.modified = TRUE]
             ELSE e

delete_char(e) ==
    IF e.text = <<>> THEN e
    ELSE IF ~IndexOK(e.text, e.cursor_y) THEN Raise(e)
    ELSE LET current_line == Item(e.text, e.cursor_y)
         IN  IF e.cursor_x > 0
             THEN [e EXCEPT
                     !.text = SetItem(e.text, e.cursor_y,
                                  Slice(current_line, 0, e.cursor_x - 1)
                                  \o SliceFrom(current_line, e.cursor_x)),
                     !.cursor_x = e.cursor_x - 1,
                     !.modified = TRUE]
             ELSE IF e.cursor_y > 0
             THEN LET prev_line == Item(e.text, e.cursor_y - 1)
                      t1 == SetItem(e.text, e.cursor_y - 1, prev_line \o current_line)
                  IN  [e EXCEPT
                         !.cursor_x = Len(prev_line),
                         !.text = ListPop(t1, e.cursor_y),
                         !.cursor_y = e.cursor_y - 1,
                         !.modified = TRUE]
             ELSE e

\* move right without the test for the last line
move_right_past_last(e) ==
    IF ~IndexOK(e.text, e.cursor_y) THEN Raise(e)
    ELSE IF e.cursor_x < Len(Item(e.text, e.cursor_y))
         THEN [e EXCEPT !.cursor_x = e.cursor_x + 1]
         ELSE [e EXCEPT !.cursor_y = e.cursor_y + 1, !.cursor_x = 0]

move_right(e) ==
    IF ~IndexOK(e.text, e.cursor_y) THEN Raise(e)
    ELSE IF e.cursor_x < Len(Item(e.text, e.cursor_y))
         THEN [e EXCEPT !.cursor_x = e.cursor_x + 1]
         ELSE IF e.cursor_y < Len(e.text) - 1
              THEN [e EXCEPT !.cursor_y = e.cursor_y + 1, !.cursor_x = 0]
              ELSE e

\* a boundary test that is off by one
move_left_off_by_one(e) ==
    IF e.cursor_x >= 0
    THEN [e EXCEPT !.cursor_x = e.cursor_x - 1]
    ELSE e

move_left(e) ==
    IF e.cursor_x > 0
    THEN [e EXCEPT !.cursor_x = e.cursor_x - 1]
    ELSE IF e.cursor_y > 0
         THEN [e EXCEPT !.cursor_y = e.cursor_y - 1,
                        !.cursor_x = Len(Item(e.text, e.cursor_y - 1))]
         ELSE e

move_up(e) ==
    IF e.cursor_y > 0
    THEN [e EXCEPT !.cursor_y = e.cursor_y - 1,
                   !.cursor_x = Min(e.cursor_x, Len(Item(e.text, e.cursor_y - 1)))]
    ELSE e

move_down(e) ==
    IF e.cursor_y < Len(e.text) - 1
    THEN [e EXCEPT !.cursor_y = e.cursor_y + 1,
                   !.cursor_x = Min(e.cursor_x, Len(Item(e.text, e.cursor_y + 1)))]
    ELSE e

move_home(e) == [e EXCEPT !.cursor_x = 0]

move_end(e) ==
    IF ~IndexOK(e.text, e.cursor_y) THEN Raise(e)
    ELSE [e EXCEPT !.cursor_x = Len(Item(e.text, e.cursor_y))]

move_cursor(e, key) ==
    IF key = KEY_RIGHT THEN move_right(e)
    ELSE IF key = KEY_LEFT THEN move_left(e)
    ELSE IF key = KEY_UP THEN move_up(e)
    ELSE IF key = KEY_DOWN THEN move_down(e)
    ELSE IF key = KEY_HOME THEN move_home(e)
    ELSE IF key = KEY_END THEN move_end(e)
    ELSE e

\* the message painted whatever the counter says
draw_status_bar_keeps_message(e) ==
    IF e.status_timer > 0
    THEN [status_timer |-> e.status_timer - 1, message_line |-> e.status_message]
    ELSE [status_timer |-> e.status_timer, message_line |-> e.status_message]

\* the message line part of draw_status_bar: the new counter and the text
\* painted on the message line
draw_status_bar(e) ==
    IF e.status_timer > 0
    THEN [status_timer |-> e.status_timer - 1, message_line |-> e.status_message]
    ELSE [status_timer |-> e.status_timer, message_line |-> ""]

----------------------------------------------------------------------------
(* CatEditor: layout                                                       *)

\* calculate_editor_space without the minimum
calculate_editor_space_no_floor(h, t) ==
    LET max_available == h - cat_head_height - cat_bottom_height - 1
        desired_lines == Len(t) + 5
    IN  Min(desired_lines, max_available)

\* calculate_editor_space for a terminal of h rows and a text t
calculate_editor_space(h, t) ==
    LET max_available == h - cat_head_height - cat_bottom_height - 1
        desired_lines == Len(t) + 5
        editor_lines == Min(desired_lines, max_available)
    IN  Max(editor_lines, min_editor_lines)

\* draw_cat: the rows handed to TextEditor.draw on a terminal of h rows
editor_start_row == cat_head_height

editor_end_row(h, t) ==
    LET end_row == editor_start_row + calculate_editor_space(h, t)
    IN  IF end_row >= h - cat_bottom_height
        THEN h - cat_bottom_height
        ELSE end_row

\* TextEditor.draw: the row of the status bar, the row of the message line
\* and the row where the cursor is placed
status_row(h, t) == editor_end_row(h, t) - 2
message_row(h, t) == status_row(h, t) + 1
cursor_screen_y(e) == editor_start_row + (e.cursor_y - e.scroll_y)

\* the scroll down that leaves the cursor one row below the visible area
scroll_if_needed_off_by_one(e) ==
    LET editor_height == calculate_editor_space(height, e.text)
        e1 == IF e.cursor_y - e.scroll_y >= editor_height
              THEN [e EXCEPT !.scroll_y = e.cursor_y - editor_height]
              ELSE e
    IN  IF e1.cursor_y < e1.scroll_y
        THEN [e1 EXCEPT !.scroll_y = e1.cursor_y]
        ELSE e1

scroll_if_needed(e) ==
    LET editor_height == calculate_editor_space(height, e.text)
        e1 == IF e.cursor_y - e.scroll_y >= editor_height
              THEN [e EXCEPT !.scroll_y = e.cursor_y - editor_height + 1]
              ELSE e
    IN  IF e1.cursor_y < e1.scroll_y
        THEN [e1 EXCEPT !.scroll_y = e1.cursor_y]
        ELSE e1

\* the two statements after the key dispatch of process_keypress
clamp_cursor(e) ==
    LET e1 == IF e.cursor_y >= Len(e.text)
              THEN [e EXCEPT !.cursor_y = Len(e.text) - 1]
              ELSE e
    IN  IF ~IndexOK(e1.text, e1.cursor_y) THEN Raise(e1)
        ELSE IF e1.cursor_x > Len(Item(e1.text, e1.cursor_y))
             THEN [e1 EXCEPT !.cursor_x = Len(Item(e1.text, e1.cursor_y))]
             ELSE e1

\* the key dispatch of process_keypress (the Ctrl+X branch is never taken:
\* run handles that key itself and passes on every other key)
dispatch_key(e, key, outcome) ==
    IF key \in {KEY_RIGHT, KEY_LEFT, KEY_UP, KEY_DOWN, KEY_HOME, KEY_END}
    THEN move_cursor(e, key)
    ELSE IF key = NEWLINE \/ key = CARRIAGE_RETURN THEN insert_newline(e)
    ELSE IF key = DEL \/ key = KEY_BACKSPACE THEN delete_char(e)
    ELSE IF key = KEY_DC THEN e
    ELSE IF key = CTRL_S THEN save_file(e, outcome)
    ELSE IF 32 <= key /\ key <= 126 THEN insert_char(e, key)
    ELSE e

process_keypress(e, key, outcome) ==
    LET e1 == dispatch_key(e, key, outcome)
    IN  IF e1.raised THEN e1
        ELSE LET e2 == clamp_cursor(e1)
             IN  IF e2.raised THEN e2 ELSE scroll_if_needed(e2)

----------------------------------------------------------------------------
(* Session start: TextEditor.__init__ with load_file, then CatEditor       *)

InitEditor(name, state, data) ==
    /\ filename = name
    /\ fileState = state
    /\ fileData = data
    /\ cursor_x = 0
    /\ cursor_y = 0
    /\ scroll_y = 0
    /\ modified = FALSE
    /\ running = TRUE
    /\ screen = "none"
    /\ message_line = ""
    /\ save_ret = "none"
    /\ IF name = NoName
       THEN /\ text = << <<>> >>
            /\ status_message = "New buffer" /\ status_timer = default_ttl
            /\ io_error = FALSE /\ pc = "frame"
       ELSE IF state = "absent"
       THEN /\ text = << <<>> >>
            /\ status_message = "New file" /\ status_timer = default_ttl
            /\ io_error = FALSE /\ pc = "frame"
       ELSE IF state = "present"
       THEN /\ text = loaded_text(data)
            /\ status_message = "Read file" /\ status_timer = default_ttl
            /\ io_error = FALSE /\ pc = "frame"
       ELSE \* open raises PermissionError, which load_file does not catch
            /\ text = <<>>
            /\ status_message = "" /\ status_timer = 0
            /\ io_error = TRUE /\ pc = "crashed"

Init ==
    /\ \E s \in Sizes : height = s[1] /\ width = s[2]
    /\ \/ InitEditor(NoName, "absent", <<>>)
       \/ InitEditor(Path, "absent", <<>>)
       \/ InitEditor(Path, "denied", <<>>)
       \/ \E data \in FileContents : InitEditor(Path, "present", data)

----------------------------------------------------------------------------
(* CatEditor.run                                                           *)

\* the exploration bound on the size of the text
LineLimit == IF filename = NoName THEN MaxLines ELSE MaxNamedLines
CharLimit == IF filename = NoName THEN MaxChars ELSE MaxNamedChars

KeyAllowed(key) ==
    /\ (key \in {NEWLINE, CARRIAGE_RETURN} => Len(text) < LineLimit)
    /\ (32 <= key /\ key <= 126 => TotalChars(text) < CharLimit)

Commit(e) ==
    /\ text' = e.text
    /\ cursor_x' = e.cursor_x
    /\ cursor_y' = e.cursor_y
    /\ scroll_y' = e.scroll_y
    /\ status_message' = e.status_message
    /\ status_timer' = e.status_timer
    /\ modified' = e.modified
    /\ fileState' = e.fileState
    /\ fileData' = e.fileData
    /\ save_ret' = e.save_ret
    /\ io_error' = e.io_error

\* draw_cat and, when it drew the editor, draw_help and refresh
DrawFrame ==
    /\ pc = "frame"
    /\ IF height < min_screen_height \/ width < min_screen_width
       THEN /\ screen' = "too_small"
            /\ message_line' = ""
            /\ pc' = "frame"
            /\ UNCHANGED status_timer
       ELSE /\ screen' = "editor"
            /\ pc' = "getch"
            /\ status_timer' = draw_status_bar(Editor).status_timer
            /\ message_line' = draw_status_bar(Editor).message_line
    /\ save_ret' = "none"
    /\ io_error' = FALSE
    /\ UNCHANGED <<filename, fileState, fileData, text, cursor_x, cursor_y,
                   scroll_y, status_message, modified, running, height, width>>

\* 'q' or Ctrl+Q without the test of the modified flag
QuitKey_ignores_modified(key) ==
    /\ pc = "getch"
    /\ key \in {ORD_q, CTRL_Q}
    /\ Commit(Editor)
    /\ running' = FALSE
    /\ pc' = "done"
    /\ UNCHANGED <<filename, height, width, screen, message_line>>

\* 'q' or Ctrl+Q
QuitKey(key) ==
    /\ pc = "getch"
    /\ key \in {ORD_q, CTRL_Q}
    /\ IF modified
       THEN /\ Commit(set_status_message(Editor,
                        "Modified buffer exists! Use Ctrl+X to exit", default_ttl))
            /\ running' = TRUE
            /\ pc' = "frame"
       ELSE /\ Commit(Editor)
            /\ running' = FALSE
            /\ pc' = "done"
    /\ UNCHANGED <<filename, height, width, screen, message_line>>

\* Ctrl+X, up to the getch that reads the answer
ExitKey ==
    /\ pc = "getch"
    /\ IF modified
       THEN /\ Commit(set_status_message(Editor, "Save modified buffer? (Y/n)",
                                         default_ttl))
            /\ running' = TRUE
            /\ pc' = "confirm"
       ELSE /\ Commit(Editor)
            /\ running' = FALSE
            /\ pc' = "done"
    /\ UNCHANGED <<filename, height, width, screen, message_line>>

\* the answer to the prompt, with Enter not taken as yes
Answer_enter_cancels(ch, outcome) ==
    /\ pc = "confirm"
    /\ IF ch = ORD_y \/ ch = ORD_Y
       THEN LET e == save_file(Editor, outcome)
            IN  /\ Commit(e)
                /\ running' = (e.save_ret # "true")
       ELSE IF ch = ORD_n \/ ch = ORD_N
       THEN /\ Commit(Editor)
            /\ running' = FALSE
       ELSE /\ Commit(Editor)
            /\ running' = TRUE
    /\ pc' = IF running' THEN "frame" ELSE "done"
    /\ UNCHANGED <<filename, height, width, screen, message_line>>

\* the answer to the prompt of Ctrl+X
Answer(ch, outcome) ==
    /\ pc = "confirm"
    /\ IF ch = ORD_y \/ ch = ORD_Y \/ ch = NEWLINE
       THEN LET e == save_file(Editor, outcome)
            IN  /\ Commit(e)
                /\ running' = (e.save_ret # "true")
       ELSE IF ch = ORD_n \/ ch = ORD_N
       THEN /\ Commit(Editor)
            /\ running' = FALSE
       ELSE /\ Commit(Editor)
            /\ running' = TRUE
    /\ pc' = IF running' THEN "frame" ELSE "done"
    /\ UNCHANGED <<filename, height, width, screen, message_line>>

\* every other key: passed to the editor; outcome matters to Ctrl+S only
EditKey(key, outcome) ==
    /\ pc = "getch"
    /\ key \notin {ORD_q, CTRL_Q, CTRL_X}
    /\ KeyAllowed(key)
    /\ (key # CTRL_S => outcome = "ok")
    /\ LET e == process_keypress(Editor, key, outcome)
       IN  /\ Commit(e)
           /\ pc' = IF e.raised THEN "crashed" ELSE "frame"
    /\ UNCHANGED <<filename, running, height, width, screen, message_line>>

\* KeyboardInterrupt raised inside the try block: break
Interrupt ==
    /\ pc \in {"getch", "confirm"}
    /\ pc' = "done"
    /\ save_ret' = "none"
    /\ io_error' = FALSE
    /\ UNCHANGED <<filename, fileState, fileData, text, cursor_x, cursor_y,
                   scroll_y, status_message, status_timer, modified, running,
                   height, width, screen, message_line>>

\* the terminal is resized; the next getmaxyx returns the new size
Resize ==
    /\ pc \in {"frame", "getch", "confirm"}
    /\ \E s \in Sizes : height' = s[1] /\ width' = s[2]
    /\ <<height', width'>> # <<height, width>>
    /\ UNCHANGED <<filename, fileState, fileData, text, cursor_x, cursor_y,
                   scroll_y, status_message, status_timer, modified, running,
                   screen, message_line, pc, save_ret, io_error>>

Next ==
    \/ DrawFrame
    \/ \E key \in Keys : QuitKey(key)
    \/ ExitKey
    \/ \E ch \in AnswerKeys, outcome \in SaveOutcomes : Answer(ch, outcome)
    \/ \E key \in Keys, outcome \in SaveOutcomes : EditKey(key, outcome)
    \/ Interrupt
    \/ Resize

Spec == Init /\ [][Next]_vars

----------------------------------------------------------------------------
(* Properties                                                              *)

\* the Cursor invariant on an editor state
CursorOK(e) ==
    /\ 0 <= e.cursor_y /\ e.cursor_y < Len(e.text)
    /\ 0 <= e.cursor_x /\ e.cursor_x <= Len(e.text[e.cursor_y + 1])

\* the results of every single buffer operation applied to the current state
OperationResults ==
    { insert_char(Editor, ch) : ch \in {ORD_a, ORD_b} }
    \cup { insert_newline(Editor), delete_char(Editor) }
    \cup { move_cursor(Editor, key) :
             key \in {KEY_LEFT, KEY_RIGHT, KEY_UP, KEY_DOWN, KEY_HOME, KEY_END} }

\* C1: whenever the Document has at least one line, the cursor is inside it
\* (0 <= row < len(Document), 0 <= column <= len(Document[row])), and each of
\* insertChar, insertNewline, deleteBackward and moveCursor applied to that
\* state yields, without error, a state whose cursor is inside the Document.
C1_CursorInvariant ==
    text # <<>> =>
        /\ CursorOK(Editor)
        /\ \A e \in OperationResults : ~e.raised /\ e.text # <<>> /\ CursorOK(e)

\* C1 witness: editing has left the cursor on a later line, after a character.
C1_Witness ==
    /\ modified
    /\ Len(text) >= 2
    /\ cursor_y >= 1
    /\ cursor_x >= 1

\* C2: the Document always contains at least one line, right after session
\* start for every load outcome and after every editing operation.
C2_DocumentNeverEmpty == pc # "crashed" => Len(text) >= 1

\* a key was passed to process_keypress
KeypressHandled == \E key \in Keys, outcome \in SaveOutcomes : EditKey(key, outcome)

\* C3: after every keypress handled by process_keypress, scroll >= 0 and
\* scroll <= cursor.row < scroll + viewportHeight, the viewport height being
\* the editor height computed for the terminal size and Document length of
\* that moment.
C3_CursorVisible ==
    [][KeypressHandled =>
         /\ scroll_y' >= 0
         /\ scroll_y' <= cursor_y'
         /\ cursor_y' < scroll_y' + calculate_editor_space(height', text')]_vars

\* the event loop ends in this step, by leaving the loop or by an exception
LoopStops == pc \notin {"done", "crashed"} /\ pc' \in {"done", "crashed"}

AnsweredNo == \E ch \in {ORD_n, ORD_N} : Answer(ch, "ok")

QuitPressed == ExitKey \/ \E key \in {ORD_q, CTRL_Q} : QuitKey(key)

YesAnswered == \E ch \in {ORD_y, ORD_Y}, outcome \in SaveOutcomes : Answer(ch, outcome)

OtherAnswered ==
    \E ch \in AnswerKeys \ {ORD_y, ORD_Y, ORD_n, ORD_N}, outcome \in SaveOutcomes :
        Answer(ch, outcome)

\* C5: Ctrl+X pressed while modified: yes (y/Y) saves and then exits, no (n/N)
\* exits without saving, any other answer key cancels the exit, leaving the
\* session running with Document, cursor and modified flag unchanged and
\* nothing written.
C5_ExitAnswers ==
    [][/\ YesAnswered =>
            /\ fileState' = "present" /\ fileData' = written_data(text)
            /\ pc' = "done"
       /\ AnsweredNo =>
            /\ pc' = "done"
            /\ UNCHANGED <<fileState, fileData>>
       /\ OtherAnswered =>
            /\ pc' = "frame"
            /\ UNCHANGED <<text, cursor_x, cursor_y, modified, fileState, fileData>>]_vars

SaveAnswered ==
    \E ch \in {ORD_y, ORD_Y, NEWLINE}, outcome \in SaveOutcomes : Answer(ch, outcome)

CancelAnswered ==
    \E ch \in AnswerKeys \ {ORD_y, ORD_Y, NEWLINE, ORD_n, ORD_N} : Answer(ch, "ok")

\* C5 as amended: Ctrl+X pressed while modified: yes (y/Y) or Enter calls save
\* and exits only if the save succeeded, having written the Document and
\* cleared the modified flag; if the save failed the session keeps running
\* with Document, cursor and modified flag unchanged; no (n/N) exits without
\* saving; any other answer key cancels the exit, leaving the session running
\* with Document, cursor and modified flag unchanged and nothing written.
C5_ExitAnswersEnterIsYes ==
    [][/\ SaveAnswered =>
            /\ save_ret' # "none"
            /\ IF save_ret' = "true"
               THEN /\ fileState' = "present" /\ fileData' = written_data(text)
                    /\ ~modified'
                    /\ pc' = "done"
               ELSE /\ pc' = "frame"
                    /\ UNCHANGED <<text, cursor_x, cursor_y, modified>>
       /\ AnsweredNo =>
            /\ pc' = "done"
            /\ UNCHANGED <<text, modified, fileState, fileData>>
       /\ CancelAnswered =>
            /\ pc' = "frame"
            /\ UNCHANGED <<text, cursor_x, cursor_y, modified, fileState, fileData>>]_vars

\* C5 witness: the exit prompt was answered with a save that succeeded.
C5_Witness ==
    /\ pc = "done"
    /\ save_ret = "true"
    /\ ~modified
    /\ fileData = written_data(text)

\* C6: the modified flag becomes true in every step that changes the Document
\* and in no other step; it goes from true to false only in a save that
\* completed its write; a step that leaves the Document as it was and is not a
\* successful save (cursor motion, deleteBackward at (0,0), Delete-forward, a
\* failed save, a save with no filename) leaves the flag unchanged.
C6_ModifiedFlag ==
    [][/\ text' # text => modified'
       /\ (~modified /\ modified') => text' # text
       /\ (modified /\ ~modified') =>
            /\ save_ret' = "true"
            /\ fileState' = "present" /\ fileData' = written_data(text')
       /\ (text' = text /\ save_ret' # "true") => modified' = modified]_vars

\* C6 witness: a text typed in this session was saved and the flag cleared.
C6_Witness ==
    /\ save_ret = "true"
    /\ ~modified
    /\ fileData = <<ORD_b, NEWLINE>>

\* C7: an I/O failure other than 'file does not exist', on load at session
\* start or on save, ends in a user-visible status message with the session
\* still running, never in an uncaught error.
C7_IOFailureReported ==
    io_error => pc # "crashed" /\ status_timer > 0 /\ status_message # ""

\* C8: save with no filename is a no-op that reports false: no write is
\* attempted, the file system is unchanged, and Document, cursor and modified
\* flag are unchanged.
C8_SaveWithoutFilename ==
    [][(filename = NoName /\ save_ret' # "none") =>
         /\ save_ret' = "false"
         /\ ~io_error'
         /\ UNCHANGED <<fileState, fileData, text, cursor_x, cursor_y, modified>>]_vars

\* C8 witness: save was called on a modified buffer without filename.
C8_Witness == filename = NoName /\ save_ret = "false" /\ modified

\* C9: right after a successful save, loading the file yields exactly the
\* lines of the Document, in order.
C9_RoundTrip ==
    save_ret = "true" => fileState = "present" /\ loaded_text(fileData) = text

\* C9 witness: a Document of two empty lines was saved.
C9_Witness == save_ret = "true" /\ text = << <<>>, <<>> >>

\* C10: the editor height is max(min(len(Document) + 5, terminalHeight - 3 - 4
\* - 1), 5) for the current terminal height and Document length, is never
\* negative, and is 7 for terminalHeight 20 and 2 lines.
C10_EditorHeight ==
    LET eh == calculate_editor_space(height, text)
        avail == height - 3 - 4 - 1
        want == Len(text) + 5
    IN  /\ eh >= 0
        /\ eh = IF want <= avail
                THEN (IF want >= 5 THEN want ELSE 5)
                ELSE (IF avail >= 5 THEN avail ELSE 5)
        /\ (height = 20 /\ Len(text) = 2) => eh = 7

\* C10 witness: a frame was drawn on a terminal of 20 rows for 2 lines.
C10_Witness ==
    /\ screen = "editor" /\ pc = "getch"
    /\ height = 20 /\ Len(text) = 2
    /\ calculate_editor_space(height, text) = 7

\* draw_cat passes the terminal-size guard and draws the editor in this step
FrameDrawn == DrawFrame /\ screen' = "editor"

\* C11: on every frame that passes the terminal-size guard, the rows handed
\* to the renderer satisfy editorEndRow - editorStartRow = editorHeight (the
\* value calculate_editor_space returns, which the scroll reclamp uses) and
\* editorEndRow <= terminalHeight - bottomChromeHeight.
C11_RowsMatchEditorHeight ==
    [][FrameDrawn =>
         /\ editor_end_row(height, text) - editor_start_row
                = calculate_editor_space(height, text)
         /\ editor_end_row(height, text) <= height - cat_bottom_height]_vars

\* the cursor is at the end of the last line
AtEndOfLastLine ==
    /\ text # <<>>
    /\ cursor_y = Len(text) - 1
    /\ cursor_x = Len(Item(text, cursor_y))

\* C12: operations at a buffer edge are no-ops: Left at (0,0), Right at the
\* end of the last line, Up on the first line, Down on the last line and
\* delete_char at (0,0) each return the editor as it was (same Document,
\* cursor and modified flag) and raise no error.
C12_EdgeNoOps ==
    /\ (cursor_y = 0 /\ cursor_x = 0) => move_cursor(Editor, KEY_LEFT) = Editor
    /\ AtEndOfLastLine => move_cursor(Editor, KEY_RIGHT) = Editor
    /\ cursor_y = 0 => move_cursor(Editor, KEY_UP) = Editor
    /\ cursor_y = Len(text) - 1 => move_cursor(Editor, KEY_DOWN) = Editor
    /\ (cursor_y = 0 /\ cursor_x = 0) => delete_char(Editor) = Editor

\* the cursor sits at the end of the last line of a modified Document of
\* several lines, where Right and Down have nowhere to go
C12_Witness ==
    /\ pc = "getch"
    /\ AtEndOfLastLine
    /\ Len(text) >= 2
    /\ cursor_x > 0
    /\ modified

\* the keys of the model in the printable range
PrintableKeys == { key \in Keys : 32 <= key /\ key <= 126 }

\* the getch of the event loop returns key and run handles it
KeyRead(key) == QuitKey(key) \/ EditKey(key, "ok")

\* C13: every key code in the printable range (32..126) received by the
\* event loop results in insert_char of that character: the character is
\* spliced into the current line at the cursor column, the column grows by 1
\* and modified becomes true, whatever it was before.
C13_PrintableInserted ==
    [][\A key \in PrintableKeys :
         KeyRead(key) =>
            /\ text' = insert_char(Editor, key).text
            /\ cursor_x' = cursor_x + 1
            /\ modified']_vars

\* all the lines of a Document, one after the other
RECURSIVE Concatenation(_)
Concatenation(t) == IF t = <<>> THEN <<>> ELSE Head(t) \o Concatenation(Tail(t))

\* what C14 says of insert_newline applied to an editor e with a valid cursor
NewlineSplits(e) ==
    LET r == e.cursor_y
        c == e.cursor_x
        line == e.text[r + 1]
        after == insert_newline(e)
    IN  /\ ~after.raised
        /\ Len(after.text) = Len(e.text) + 1
        /\ after.text[r + 1] = SubSeq(line, 1, c)
        /\ after.text[r + 2] = SubSeq(line, c + 1, Len(line))
        /\ \A i \in 1..r : after.text[i] = e.text[i]
        /\ \A i \in (r + 2)..Len(e.text) : after.text[i + 1] = e.text[i]
        /\ Concatenation(after.text) = Concatenation(e.text)
        /\ after.cursor_y = r + 1
        /\ after.cursor_x = 0

\* the Document ["abc", "de", "f"] with the cursor at (1, 2)
C14_Example ==
    [Editor EXCEPT !.text = << <<97, 98, 99>>, <<100, 101>>, <<102>> >>,
                   !.cursor_y = 1, !.cursor_x = 2]

\* C14: insert_newline at cursor (r, c) replaces line r by its first c
\* characters and inserts the remaining characters as a new line at index
\* r+1; all other lines keep their content and order, the line count grows by
\* exactly 1, the concatenation of all lines is unchanged and the cursor
\* becomes (r+1, 0). ["abc","de","f"] at (1,2) becomes ["abc","de","","f"]
\* with cursor (2,0).
C14_InsertNewline ==
    /\ CursorOK(Editor) => NewlineSplits(Editor)
    /\ NewlineSplits(C14_Example)
    /\ insert_newline(C14_Example).text
           = << <<97, 98, 99>>, <<100, 101>>, <<>>, <<102>> >>
    /\ insert_newline(C14_Example).cursor_y = 2
    /\ insert_newline(C14_Example).cursor_x = 0

\* Enter was pressed at the start of a line with a character: the line above
\* the cursor is the empty prefix, the line under it the remainder
C14_Witness ==
    /\ pc = "frame"
    /\ modified
    /\ cursor_x = 0
    /\ cursor_y >= 1
    /\ text[cursor_y] = <<>>
    /\ text[cursor_y + 1] # <<>>

\* what C15 says of delete_char applied to an editor e with a valid cursor
DeletesBackward(e) ==
    LET r == e.cursor_y
        c == e.cursor_x
        line == e.text[r + 1]
        after == delete_char(e)
    IN  /\ ~after.raised
        /\ c > 0 =>
             /\ after.text = [e.text EXCEPT
                                ![r + 1] = SubSeq(line, 1, c - 1)
                                           \o SubSeq(line, c + 1, Len(line))]
             /\ after.cursor_y = r
             /\ after.cursor_x = c - 1
        /\ (c = 0 /\ r > 0) =>
             /\ Len(after.text) = Len(e.text) - 1
             /\ after.text[r] = e.text[r] \o line
             /\ \A i \in 1..(r - 1) : after.text[i] = e.text[i]
             /\ \A i \in (r + 2)..Len(e.text) : after.text[i - 1] = e.text[i]
             /\ after.cursor_y = r - 1
             /\ after.cursor_x = Len(e.text[r])
        /\ (c = 0 /\ r = 0) => after.text = e.text

\* the Document ["ab"] with the cursor at (0, 2)
C15_Example ==
    [Editor EXCEPT !.text = << <<97, 98>> >>, !.cursor_y = 0, !.cursor_x = 2]

\* C15: delete_char at cursor (r, c): if c > 0 it removes exactly the
\* character at index c-1 of line r and the cursor becomes (r, c-1); if c = 0
\* and r > 0 it replaces line r-1 by line r-1 followed by line r, removes
\* line r, and the cursor becomes (r-1, length of line r-1 before the
\* append); the line count drops by 1 only in the merge case and no other
\* line changes. ["ab"] at (0,2) after two delete_char is [""] at (0,0).
C15_DeleteBackward ==
    /\ CursorOK(Editor) => DeletesBackward(Editor)
    /\ DeletesBackward(C15_Example)
    /\ DeletesBackward(delete_char(C15_Example))
    /\ delete_char(delete_char(C15_Example)).text = << <<>> >>
    /\ delete_char(delete_char(C15_Example)).cursor_y = 0
    /\ delete_char(delete_char(C15_Example)).cursor_x = 0

\* the cursor is at the start of a line with a character, below two other
\* lines: the next delete_char merges it into the line above
C15_Witness ==
    /\ pc = "getch"
    /\ cursor_x = 0
    /\ cursor_y >= 2
    /\ text[cursor_y + 1] # <<>>

\* what C16 says of scroll_if_needed applied to an editor e
ScrollReclamped(e) ==
    LET viewportHeight == calculate_editor_space(height, e.text)
        after == scroll_if_needed(e)
    IN  /\ after.scroll_y =
               IF e.cursor_y - e.scroll_y >= viewportHeight
               THEN e.cursor_y - viewportHeight + 1
               ELSE IF e.cursor_y < e.scroll_y THEN e.cursor_y
               ELSE e.scroll_y
        /\ [after EXCEPT !.scroll_y = e.scroll_y] = e

\* the editor states process_keypress hands to scroll_if_needed: the current
\* state after the dispatch of a key that moves the cursor or changes the
\* number of lines, and after the cursor clamp
BeforeScroll ==
    { e \in { clamp_cursor(dispatch_key(Editor, key, "ok")) :
                key \in {KEY_UP, KEY_DOWN, KEY_LEFT, KEY_RIGHT, NEWLINE, DEL} } :
        ~e.raised }

\* cursor row 25 and scroll 0, on a Document of 5 lines: on a terminal of 20
\* rows the viewport height is min(5 + 5, 20 - 8) = 10
C16_Example ==
    [Editor EXCEPT !.text = <<<<>>, <<>>, <<>>, <<>>, <<>>>>,
                   !.cursor_y = 25, !.cursor_x = 0, !.scroll_y = 0]

\* C16: scroll_if_needed moves the scroll offset by the minimum needed: if
\* cursor_y - scroll_y >= viewport height the new scroll is cursor_y -
\* viewport height + 1 (viewport height 10, cursor row 25, scroll 0 gives
\* 16); if cursor_y < scroll_y the new scroll is cursor_y; otherwise the
\* scroll is unchanged. It never changes Document, cursor or modified flag.
C16_ScrollReclamp ==
    /\ text # <<>> =>
          /\ ScrollReclamped(Editor)
          /\ \A e \in BeforeScroll : ScrollReclamped(e)
    /\ height = 20 =>
          /\ calculate_editor_space(height, C16_Example.text) = 10
          /\ ScrollReclamped(C16_Example)
          /\ scroll_if_needed(C16_Example).scroll_y = 16

\* a keypress has just scrolled the text down: the cursor is on the last row
\* of the viewport and lines are hidden above
C16_Witness ==
    /\ pc = "frame"
    /\ scroll_y >= 1
    /\ cursor_y - scroll_y = calculate_editor_space(height, text) - 1

\* C17: every iteration of the event loop performs a blocking read of the
\* next input event before the next iteration starts, for every terminal
\* size, including the frames on which the terminal is below the size floor
\* and the notice is shown: the render step of an iteration is always
\* followed by the getch of that iteration.
C17_EveryIterationReads ==
    [][DrawFrame => pc' = "getch"]_vars

\* C18: the status message counter is never negative; each render that draws
\* the status bar decrements it by exactly 1 while it is positive and leaves
\* it at 0 otherwise; the message text is displayed on a render exactly when
\* the counter was positive before that render (the message line is blank
\* otherwise), so a message set with time-to-live n, here at most the
\* default of 5, is shown on at most n consecutive renders and is blank
\* afterwards until a new message is set.
C18_StatusCounter ==
    /\ [](status_timer \in 0..default_ttl)
    /\ [][FrameDrawn =>
            /\ status_timer' = IF status_timer > 0 THEN status_timer - 1 ELSE 0
            /\ message_line' = IF status_timer > 0 THEN status_message ELSE ""]_vars

\* a message has run out: the last render found the counter at 0 and left the
\* message line blank, the text of the message is still stored
C18_Witness ==
    /\ screen = "editor" /\ pc = "getch"
    /\ status_timer = 0
    /\ status_message # ""
    /\ message_line = ""

\* the terminal passes the size guard of draw_cat
SizeGuardPassed == height >= min_screen_height /\ width >= min_screen_width

\* C19: on every frame rendered after a keypress on a terminal that passes
\* the size guard, the screen row where the cursor is placed
\* (editor_start_row + cursor_y - scroll_y) lies inside the editing region
\* [editor_start_row, editor_end_row) and is not one of the rows painted by
\* the status line and the message line. Stated on the editor state the
\* keypress leaves for the next frame, on the terminal size of the keypress.
C19_CursorRowShown ==
    [][(KeypressHandled /\ pc' = "frame" /\ SizeGuardPassed) =>
         LET after == [Editor EXCEPT !.text = text', !.cursor_y = cursor_y',
                                     !.scroll_y = scroll_y']
             row == cursor_screen_y(after)
         IN  /\ editor_start_row <= row
             /\ row < editor_end_row(height, text')
             /\ row # status_row(height, text')
             /\ row # message_row(height, text')]_vars

\* C20: when the exit key is pressed while the buffer is modified, the
\* confirmation prompt is painted on the message line before the answer key
\* is read: while run waits for the answer, the message line shows the
\* prompt.
C20_PromptPainted ==
    pc = "confirm" => message_line = "Save modified buffer? (Y/n)"

====
